---- MODULE Spec2Model ----
(***************************************************************************)
(* Model of the RWAX oracle data pipeline, services/oracle/clean_data.py:  *)
(* the anchor parser smart_parse_row, the scorer                           *)
(* calculate_connectivity_score, the gate check_compliance_and_risk and    *)
(* the batch loop of main.                                                 *)
(* Of services/oracle/mint_assets.py: the AMM functions create_amm_pool,   *)
(* create_amm_pool_for_token and the pool of mint_mock_rlusd, and the      *)
(* minting loop of main.                                                   *)
(*                                                                         *)
(* Text is a sequence of one-character strings, so that slicing, regex     *)
(* search and int()/float() conversions are computed as the code computes  *)
(* them.  A float is held as an integer number of hundredths (1.97 is 197, *)
(* 2201.0 is 220100); the connectivity score, which the code rounds to one *)
(* decimal, is held in tenths (96.2 is 962).                               *)
(***************************************************************************)
EXTENDS Integers, Sequences, FiniteSets, TLC

\* the batch run of clean_data.py
VARIABLES raw_rows, idx, pc, parsed, status, reason, risk_score, compliance,
          processed_assets, output_file, raised

\* a call of calculate_connectivity_score: its operands and its outcome
VARIABLES scorer_args, scorer_result

\* the ledger as the AMM functions of mint_assets.py see and change it: the
\* tokens that have a pool, the AMMCreate transactions submitted, the last
\* call made, and the OracleSet transactions the ledger has validated
VARIABLES amm_pools, submitted, amm_call, oracle_txs

\* the run of main of mint_assets.py
VARIABLES mint_pc, data_file, rlusd_file, assets, asset_index, updated_assets,
          clawback_enabled

oracle_vars == <<raw_rows, idx, pc, parsed, status, reason, risk_score, compliance,
                 processed_assets, output_file, raised>>

scorer_vars == <<scorer_args, scorer_result>>

amm_vars == <<amm_pools, submitted, amm_call, oracle_txs>>

mint_vars == <<mint_pc, data_file, rlusd_file, assets, asset_index, updated_assets,
               clawback_enabled>>

vars == <<oracle_vars, scorer_vars, amm_vars, mint_vars>>

\* ------------------------------------------------------------------------
\* Configuration (clean_data.py lines 10-11)
\* ------------------------------------------------------------------------
CURRENT_YEAR == 2026

MIN_EC_AGE == 10

\* ------------------------------------------------------------------------
\* Characters and text
\* ------------------------------------------------------------------------
DigitChars == <<"0", "1", "2", "3", "4", "5", "6", "7", "8", "9">>

Digit == {DigitChars[k] : k \in 1..10}

UpperChars == <<"A", "B", "C", "D", "E", "F", "G", "H", "I", "J", "K", "L", "M",
                "N", "O", "P", "Q", "R", "S", "T", "U", "V", "W", "X", "Y", "Z">>

LowerChars == <<"a", "b", "c", "d", "e", "f", "g", "h", "i", "j", "k", "l", "m",
                "n", "o", "p", "q", "r", "s", "t", "u", "v", "w", "x", "y", "z">>

Whitespace == {" ", "\n", "\t", "\r"}

\* int() of one digit character
DigitVal(c) == (CHOOSE k \in 1..10 : DigitChars[k] = c) - 1

\* str.lower() of one character, as re.IGNORECASE compares ASCII letters
ToLower(c) ==
    IF \E k \in 1..26 : UpperChars[k] = c
    THEN LowerChars[CHOOSE k \in 1..26 : UpperChars[k] = c]
    ELSE c

\* str.upper() of one character
ToUpper(c) ==
    IF \E k \in 1..26 : LowerChars[k] = c
    THEN UpperChars[CHOOSE k \in 1..26 : LowerChars[k] = c]
    ELSE c

\* str.upper()
Upper_Unchanged(t) == t

Upper(t) == [k \in 1..Len(t) |-> ToUpper(t[k])]

\* t[a-1:b] of Python, with 1-based inclusive bounds; empty when a > b
Slice(t, a, b) == IF a > b THEN <<>> ELSE SubSeq(t, a, b)

\* t[:n]
Prefix(t, n) == Slice(t, 1, IF n < Len(t) THEN n ELSE Len(t))

MinOf(S) == CHOOSE x \in S : \A y \in S : x <= y

MaxOf(S) == CHOOSE x \in S : \A y \in S : x >= y

\* str.strip()
Strip(t) ==
    LET keep == {k \in 1..Len(t) : t[k] \notin Whitespace}
    IN  IF keep = {} THEN <<>> ELSE SubSeq(t, MinOf(keep), MaxOf(keep))

IsDigitAt(t, i) == i >= 1 /\ i <= Len(t) /\ t[i] \in Digit

IsCharAt(t, i, c) == i >= 1 /\ i <= Len(t) /\ t[i] = c

\* the literal lit occurs in t at position i
StartsWithAt(t, i, lit) ==
    /\ i >= 1
    /\ i + Len(lit) - 1 <= Len(t)
    /\ \A k \in 1..Len(lit) : t[i + k - 1] = lit[k]

\* the same, ignoring letter case (lit is given in lower case)
StartsWithAtCI(t, i, lit) ==
    /\ i >= 1
    /\ i + Len(lit) - 1 <= Len(t)
    /\ \A k \in 1..Len(lit) : ToLower(t[i + k - 1]) = lit[k]

\* str.endswith
EndsWith(t, lit) == Len(t) >= Len(lit) /\ StartsWithAt(t, Len(t) - Len(lit) + 1, lit)

\* "lit in t"
Contains(t, lit) == \E i \in 1..Len(t) : StartsWithAt(t, i, lit)

\* number of consecutive digits of t from position i on (the greedy \d*)
DigitRun(t, i) ==
    LET stops == {k \in i..Len(t) : t[k] \notin Digit}
    IN  IF i > Len(t) THEN 0
        ELSE IF stops = {} THEN Len(t) - i + 1
        ELSE MinOf(stops) - i

\* int() of a digit string
RECURSIVE IntOf(_)
IntOf(t) == IF t = <<>> THEN 0
            ELSE 10 * IntOf(SubSeq(t, 1, Len(t) - 1)) + DigitVal(t[Len(t)])

\* str() of a natural number
RECURSIVE NatToStr(_)
NatToStr(n) == IF n < 10 THEN <<DigitChars[n + 1]>>
               ELSE NatToStr(n \div 10) \o <<DigitChars[(n % 10) + 1]>>

\* str() of an integer
IntToStr(n) == IF n < 0 THEN <<"-">> \o NatToStr(0 - n) ELSE NatToStr(n)

\* float() of a token matched by \d+\.?\d* or \d{1,2}\.\d{1,2}, in hundredths.
\* Digits past the second decimal are dropped: the inputs drawn below carry at
\* most two.
ParseFloat(tok) ==
    LET n    == DigitRun(tok, 1)
        frac == Slice(tok, n + 2, Len(tok))
    IN  100 * IntOf(SubSeq(tok, 1, n))
          + (IF Len(frac) = 0 THEN 0
             ELSE IF Len(frac) = 1 THEN 10 * DigitVal(frac[1])
             ELSE 10 * DigitVal(frac[1]) + DigitVal(frac[2]))

\* ------------------------------------------------------------------------
\* Values of Python
\* ------------------------------------------------------------------------
\* None, and a present float v, as held in a dict entry
None == <<>>

Float(v) == <<v>>

\* ------------------------------------------------------------------------
\* Outcomes of a call: a returned value, or an exception that escapes it
\* ------------------------------------------------------------------------
Returned(v) == [exc |-> "", value |-> v]

Raises(e) == [exc |-> e, value |-> None]

\* ------------------------------------------------------------------------
\* calculate_connectivity_score (lines 18-36).  An operand is None,
\* Float(hundredths), or a value arithmetic is not defined on (held as a
\* list of two numbers); the result is in tenths.  In units of 1e-5 the
\* score is 100 - 0.6 * max(0, (mrt - 200) / 50) - 0.4 * max(0, cbd * 2).
\* ------------------------------------------------------------------------
RoundToTenths(e5) ==
    LET q == e5 \div 10000
        r == e5 % 10000
    IN  IF r > 5000 \/ (r = 5000 /\ q % 2 = 1) THEN q + 1 ELSE q

\* the operand is a number
IsFloat(x) == Len(x) = 1

\* line 29: max(0, (mrt_m - 200) / 50), as hundredths of a metre over 200 m;
\* the variant counts the distance from 0 m
MrtPenalty_FromZero(mrt) == IF mrt > 0 THEN mrt ELSE 0

MrtPenalty(mrt) == IF mrt - 20000 > 0 THEN mrt - 20000 ELSE 0

\* line 31: max(0, cbd_km * 2), as hundredths of a kilometre
CbdPenalty(cbd) == IF cbd > 0 THEN cbd ELSE 0

\* line 34: max(0, min(100, score)); the variant has no floor
Clamp_NoFloor(score) == IF score > 10000000 THEN 10000000 ELSE score

Clamp(score) ==
    IF score < 0 THEN 0 ELSE IF score > 10000000 THEN 10000000 ELSE score

\* lines 25-34, the body of the try: arithmetic on an operand that is not a
\* number raises TypeError
ScoreBody(mrt_m, cbd_km) ==
    IF mrt_m = None \/ cbd_km = None THEN Returned(0)
    ELSE IF ~IsFloat(mrt_m) \/ ~IsFloat(cbd_km) THEN Raises("TypeError")
    ELSE Returned(RoundToTenths(Clamp(10000000 - 12 * MrtPenalty(mrt_m[1])
                                        - 800 * CbdPenalty(cbd_km[1]))))

\* lines 35-36: except: return 0
CaughtToZero(outcome) == IF outcome.exc # "" THEN Returned(0) ELSE outcome

\* the outcome of a call
ScoreOutcome(mrt_m, cbd_km) == CaughtToZero(ScoreBody(mrt_m, cbd_km))

calculate_connectivity_score(mrt_m, cbd_km) == ScoreOutcome(mrt_m, cbd_km).value

\* ------------------------------------------------------------------------
\* The regular expressions of smart_parse_row.  re.search returns the
\* leftmost position at which the pattern matches, and at that position the
\* match the greedy/lazy quantifiers select; positions are 1-based.
\* ------------------------------------------------------------------------
\* (\d{1,2}\.\d{1,2})% at position i: the length of the match, 0 if none.
\* The integer part is the two digits before the point when there are two,
\* else the one; likewise the fraction before the percent sign.
YieldLenAt_PercentOptional(t, i) ==
    LET a == IF IsDigitAt(t, i) /\ IsDigitAt(t, i + 1) /\ IsCharAt(t, i + 2, ".") THEN 2
             ELSE IF IsDigitAt(t, i) /\ IsCharAt(t, i + 1, ".") THEN 1
             ELSE 0
        p == i + a + 1
        b == IF IsDigitAt(t, p) /\ IsDigitAt(t, p + 1) THEN 2
             ELSE IF IsDigitAt(t, p) THEN 1
             ELSE 0
    IN  IF a = 0 \/ b = 0 THEN 0 ELSE a + 1 + b + 1

YieldLenAt(t, i) ==
    LET a == IF IsDigitAt(t, i) /\ IsDigitAt(t, i + 1) /\ IsCharAt(t, i + 2, ".") THEN 2
             ELSE IF IsDigitAt(t, i) /\ IsCharAt(t, i + 1, ".") THEN 1
             ELSE 0
        p == i + a + 1
        b == IF IsDigitAt(t, p) /\ IsDigitAt(t, p + 1) /\ IsCharAt(t, p + 2, "%") THEN 2
             ELSE IF IsDigitAt(t, p) /\ IsCharAt(t, p + 1, "%") THEN 1
             ELSE 0
    IN  IF a = 0 \/ b = 0 THEN 0 ELSE a + 1 + b + 1

\* re.search(r"(\d{1,2}\.\d{1,2})%", text): start of the match, 0 if none
YieldSearch(t) ==
    LET hits == {i \in 1..Len(t) : YieldLenAt(t, i) > 0}
    IN  IF hits = {} THEN 0 ELSE MinOf(hits)

\* (\d{3,5}-\d{3,5}|>3000|<1000) at position i: the length of the match, 0
\* if none.  \d{3,5} before the hyphen must be the whole digit run from i
\* (3 to 5 digits); after the hyphen it takes up to 5 digits of the run.
AreaLenAt(t, i) ==
    LET n1 == DigitRun(t, i)
        r2 == DigitRun(t, i + n1 + 1)
        n2 == IF r2 > 5 THEN 5 ELSE r2
    IN  IF n1 >= 3 /\ n1 <= 5 /\ IsCharAt(t, i + n1, "-") /\ n2 >= 3
        THEN n1 + 1 + n2
        ELSE IF StartsWithAt(t, i, <<">", "3", "0", "0", "0">>) THEN 5
        ELSE IF StartsWithAt(t, i, <<"<", "1", "0", "0", "0">>) THEN 5
        ELSE 0

\* re.search(r"(\d{3,5}-\d{3,5}|>3000|<1000)", left_side): start, 0 if none
AreaSearch(t) ==
    LET hits == {i \in 1..Len(t) : AreaLenAt(t, i) > 0}
    IN  IF hits = {} THEN 0 ELSE MinOf(hits)

\* (Freehold|999 yrs.*?|99 yrs.*?)(\d{4})?$ with re.IGNORECASE matches at
\* position i: 'Freehold' must be followed by the end or by exactly four
\* digits and the end; after '999 yrs' or '99 yrs' the lazy .*? extends to
\* the end, so these match wherever they occur.  Every match ends at the end
\* of the text.
TenureMatchesAt(t, i) ==
    \/ /\ StartsWithAtCI(t, i, <<"f", "r", "e", "e", "h", "o", "l", "d">>)
       /\ \/ i + 8 = Len(t) + 1
          \/ /\ i + 8 + 3 = Len(t)
             /\ \A k \in (i + 8)..Len(t) : t[k] \in Digit
    \/ StartsWithAtCI(t, i, <<"9", "9", "9", " ", "y", "r", "s">>)
    \/ StartsWithAtCI(t, i, <<"9", "9", " ", "y", "r", "s">>)

\* re.search(<tenure pattern>, right_side, re.IGNORECASE): start, 0 if none
TenureSearch(t) ==
    LET hits == {i \in 1..Len(t) : TenureMatchesAt(t, i)}
    IN  IF hits = {} THEN 0 ELSE MinOf(hits)

\* re.search(r"from (\d{4})", tenure_raw): position of the year, 0 if none
YearSearch(t) ==
    LET hits == {i \in 1..Len(t) :
                    /\ StartsWithAt(t, i, <<"f", "r", "o", "m", " ">>)
                    /\ \A k \in (i + 5)..(i + 8) : IsDigitAt(t, k)}
    IN  IF hits = {} THEN 0 ELSE MinOf(hits) + 5

\* re.findall(r"(\d+\.?\d*)", loc_text) from position i on: the tokens, in
\* order; a token is a digit run, an optional point, and the digits after it
RECURSIVE FindFloats(_, _)
FindFloats(t, i) ==
    IF i > Len(t) THEN <<>>
    ELSE IF t[i] \notin Digit THEN FindFloats(t, i + 1)
    ELSE LET j    == i + DigitRun(t, i)
             stop == IF IsCharAt(t, j, ".") THEN j + 1 + DigitRun(t, j + 1) ELSE j
         IN  <<SubSeq(t, i, stop - 1)>> \o FindFloats(t, stop)

\* hashlib.sha256(row.encode()).hexdigest(): the digest is not computed; it
\* is held as the hexadecimal digest of row, a value that differs for
\* different rows
Sha256Hex_WithPosition(row) == [sha256 |-> Append(row, ToString(idx))]

Sha256Hex(row) == [sha256 |-> row]

\* ------------------------------------------------------------------------
\* smart_parse_row (lines 38-145).  Each operator takes the values the code
\* has computed so far as parameters.
\* ------------------------------------------------------------------------
\* lines 93-94: re.match(r"^(\d{1,2})", remaining_left), "Unknown" if none
District(remaining_left, run) ==
    IF run = 0 THEN <<"U", "n", "k", "n", "o", "w", "n">>
    ELSE SubSeq(remaining_left, 1, IF run > 2 THEN 2 ELSE run)

\* lines 74-94: the entries set when the area range is found; the
\* IndexError of raw_name_part[-1] on an empty raw_name_part escapes
IdentityFields(area, raw_name_part, n, district) ==
    IF EndsWith(raw_name_part, <<"n", ".", "a", ".">>)
    THEN Returned(("area_sqft_range" :> area)
                  @@ ("bedrooms" :> <<"N", "/", "A">>)
                  @@ ("project_name" :> Strip(Slice(raw_name_part, 1, n - 4)))
                  @@ ("district" :> district))
    ELSE IF n = 0
    THEN Raises("IndexError")
    ELSE IF raw_name_part[n] \in Digit
    THEN Returned(("area_sqft_range" :> area)
                  @@ ("bedrooms" :> <<raw_name_part[n]>>)
                  @@ ("project_name" :> Strip(Slice(raw_name_part, 1, n - 1)))
                  @@ ("district" :> district))
    ELSE Returned(("area_sqft_range" :> area)
                  @@ ("bedrooms" :> <<"?">>)
                  @@ ("project_name" :> Strip(raw_name_part))
                  @@ ("district" :> district))

\* lines 74-76, 92: the slices of left_side around the area match
\* [area_at, area_end]
SplitAtArea(left_side, area_at, area_end, remaining_left) ==
    IdentityFields(SubSeq(left_side, area_at, area_end),
                   Slice(left_side, 1, area_at - 1),
                   area_at - 1,
                   District(remaining_left, DigitRun(remaining_left, 1)))

\* lines 71-99: left_side, with area_at the start of the area match (0: none)
ParseLeftAt(left_side, area_at, area_len) ==
    IF area_at = 0
    THEN Returned(("project_name" :> (Prefix(left_side, 20) \o <<".", ".", ".">>))
                  @@ ("area_sqft_range" :> <<"U", "n", "k", "n", "o", "w", "n">>))
    ELSE SplitAtArea(left_side, area_at, area_at + area_len - 1,
                     Slice(left_side, area_at + area_len, Len(left_side)))

ParseLeftSide(left_side) ==
    ParseLeftAt(left_side, AreaSearch(left_side),
                AreaLenAt(left_side, AreaSearch(left_side)))

\* lines 109-113: the entries set from the matched tenure text
TenureFields(tenure_raw, year_at) ==
    ("tenure_raw" :> tenure_raw)
    @@ ("tenure_type" :>
          IF \/ Contains(tenure_raw, <<"F", "r", "e", "e", "h", "o", "l", "d">>)
             \/ Contains(tenure_raw, <<"9", "9", "9">>)
          THEN "Freehold/999yr" ELSE "Leasehold")
    @@ ("commence_year" :>
          IF year_at = 0 THEN 0 ELSE IntOf(SubSeq(tenure_raw, year_at, year_at + 3)))

TenureOf(tenure_raw) == TenureFields(tenure_raw, YearSearch(tenure_raw))

\* lines 107-119: right_side, with tenure_at the start of the tenure match
\* (0: none); every tenure match extends to the end of right_side
ParseTenureAt(right_side, tenure_at) ==
    IF tenure_at = 0 THEN ("tenure_type" :> "Unknown")
    ELSE TenureOf(Strip(Slice(right_side, tenure_at, Len(right_side))))

\* lines 116, 119: the text searched for the distances
LocTextAt(right_side, tenure_at) ==
    IF tenure_at = 0 THEN right_side ELSE Slice(right_side, 1, tenure_at - 1)

\* the first two tokens taken instead of the last two
DistanceFields_FirstTwo(floats, n) ==
    IF n >= 2
    THEN ("cbd_dist_km" :> Float(ParseFloat(floats[2])))
         @@ ("mrt_dist_m" :> Float(ParseFloat(floats[1])))
    ELSE ("cbd_dist_km" :> None) @@ ("mrt_dist_m" :> None)

\* lines 126-137: the distance entries, from the tokens findall returned
DistanceFields(floats, n) ==
    IF n >= 2
    THEN ("cbd_dist_km" :> Float(ParseFloat(floats[n])))
         @@ ("mrt_dist_m" :> Float(ParseFloat(floats[n - 1])))
    ELSE ("cbd_dist_km" :> None) @@ ("mrt_dist_m" :> None)

ParseDistances(loc_text) ==
    DistanceFields(FindFloats(loc_text, 1), Len(FindFloats(loc_text, 1)))

\* lines 142-145: the score, the hash and the returned dict
Enrich(row, fields, dist) ==
    Returned(fields
             @@ dist
             @@ ("connectivity_score" :>
                   calculate_connectivity_score(dist["mrt_dist_m"], dist["cbd_dist_km"]))
             @@ ("data_hash" :> Sha256Hex(row)))

\* lines 71-145 once the line is split around the anchor
ParseSides(row, yield_apy, left, right_side, tenure_at) ==
    IF left.exc # "" THEN left
    ELSE Enrich(row,
                ("yield_apy" :> yield_apy) @@ left.value
                  @@ ParseTenureAt(right_side, tenure_at),
                ParseDistances(LocTextAt(right_side, tenure_at)))

\* lines 50-62: the anchor [yield_at, yield_at + yield_len - 1] of text
SplitAtYield(row, text, yield_at, yield_len, right_side) ==
    IF yield_at = 0 THEN Returned(None)
    ELSE ParseSides(row,
                    ParseFloat(SubSeq(text, yield_at, yield_at + yield_len - 2)),
                    ParseLeftSide(Slice(text, 1, yield_at - 1)),
                    right_side,
                    TenureSearch(right_side))

ParseText(row, text, yield_at, yield_len) ==
    SplitAtYield(row, text, yield_at, yield_len,
                 Slice(text, yield_at + yield_len, Len(text)))

ParseStripped(row, text) ==
    ParseText(row, text, YieldSearch(text), YieldLenAt(text, YieldSearch(text)))

smart_parse_row(row) == ParseStripped(row, Strip(row))

\* ------------------------------------------------------------------------
\* check_compliance_and_risk (lines 147-192), one operator per rule
\* ------------------------------------------------------------------------
\* the age threshold taken as exclusive
Eligibility_StrictAge(asset) ==
    IF asset["tenure_type"] = "Freehold/999yr"
    THEN [status |-> "APPROVED", reason |-> "Unrestricted (Freehold)"]
    ELSE IF asset["tenure_type"] = "Leasehold"
    THEN IF asset["commence_year"] > 0
         THEN LET age == CURRENT_YEAR - asset["commence_year"]
              IN  IF age > MIN_EC_AGE
                  THEN [status |-> "APPROVED",
                        reason |-> "Safe Leasehold (" \o ToString(age) \o " yrs old)"]
                  ELSE [status |-> "REJECTED",
                        reason |-> "Restricted/New EC (" \o ToString(age) \o " yrs old)"]
         ELSE [status |-> "FLAGGED", reason |-> "Unknown Lease Year"]
    ELSE [status |-> "REJECTED", reason |-> "Unknown"]

\* the age rule applied to every tenure with a known year, Freehold included
Eligibility_AgeFirst(asset) ==
    IF asset["tenure_type"] \in {"Freehold/999yr", "Leasehold"}
       /\ asset["commence_year"] > 0
    THEN LET age == CURRENT_YEAR - asset["commence_year"]
         IN  IF age >= MIN_EC_AGE
             THEN [status |-> "APPROVED",
                   reason |-> "Safe Leasehold (" \o ToString(age) \o " yrs old)"]
             ELSE [status |-> "REJECTED",
                   reason |-> "Restricted/New EC (" \o ToString(age) \o " yrs old)"]
    ELSE IF asset["tenure_type"] = "Freehold/999yr"
    THEN [status |-> "APPROVED", reason |-> "Unrestricted (Freehold)"]
    ELSE IF asset["tenure_type"] = "Leasehold"
    THEN [status |-> "FLAGGED", reason |-> "Unknown Lease Year"]
    ELSE [status |-> "REJECTED", reason |-> "Unknown"]

\* the status initialised to APPROVED instead of REJECTED
Eligibility_DefaultApproved(asset) ==
    IF asset["tenure_type"] = "Freehold/999yr"
    THEN [status |-> "APPROVED", reason |-> "Unrestricted (Freehold)"]
    ELSE IF asset["tenure_type"] = "Leasehold"
    THEN IF asset["commence_year"] > 0
         THEN LET age == CURRENT_YEAR - asset["commence_year"]
              IN  IF age >= MIN_EC_AGE
                  THEN [status |-> "APPROVED",
                        reason |-> "Safe Leasehold (" \o ToString(age) \o " yrs old)"]
                  ELSE [status |-> "REJECTED",
                        reason |-> "Restricted/New EC (" \o ToString(age) \o " yrs old)"]
         ELSE [status |-> "FLAGGED", reason |-> "Unknown Lease Year"]
    ELSE [status |-> "APPROVED", reason |-> "Unknown"]

\* lines 152-169: the legal gate
Eligibility(asset) ==
    IF asset["tenure_type"] = "Freehold/999yr"
    THEN [status |-> "APPROVED", reason |-> "Unrestricted (Freehold)"]
    ELSE IF asset["tenure_type"] = "Leasehold"
    THEN IF asset["commence_year"] > 0
         THEN LET age == CURRENT_YEAR - asset["commence_year"]
              IN  IF age >= MIN_EC_AGE
                  THEN [status |-> "APPROVED",
                        reason |-> "Safe Leasehold (" \o ToString(age) \o " yrs old)"]
                  ELSE [status |-> "REJECTED",
                        reason |-> "Restricted/New EC (" \o ToString(age) \o " yrs old)"]
         ELSE [status |-> "FLAGGED", reason |-> "Unknown Lease Year"]
    ELSE [status |-> "REJECTED", reason |-> "Unknown"]

\* line 176
AfterLeaseholdRule(asset, score) ==
    IF asset["tenure_type"] = "Leasehold" THEN score - 2 ELSE score

\* line 178 (the connectivity score is held in tenths)
AfterConnectivityRule(asset, score) ==
    IF asset["connectivity_score"] < 500 THEN score - 2 ELSE score

\* the yield threshold taken as inclusive
AfterYieldRule_Inclusive(asset, score) ==
    IF asset["yield_apy"] <= 200 THEN score - 1 ELSE score

\* line 180 (the yield is held in hundredths)
AfterYieldRule(asset, score) ==
    IF asset["yield_apy"] < 200 THEN score - 1 ELSE score

\* the first matching threshold wins instead of the last
RiskTier_FirstMatchWins(score) ==
    IF score <= 7 THEN "B (Medium Risk)"
    ELSE IF score <= 5 THEN "C (High Risk)"
    ELSE "A (Low Risk)"

\* lines 183-185: the later assignment wins, so score <= 5 gives C
RiskTier(score) ==
    IF score <= 5 THEN "C (High Risk)"
    ELSE IF score <= 7 THEN "B (Medium Risk)"
    ELSE "A (Low Risk)"

\* ------------------------------------------------------------------------
\* main (lines 194-254): the record of an approved row
\* ------------------------------------------------------------------------
\* dict.get(key, default)
Get(d, key, default) == IF key \in DOMAIN d THEN d[key] ELSE default

\* data_hash[:n]
HexPrefix(h, n) == [prefix |-> n, of |-> h]

\* line 239: int(parsed.get('mrt_dist_m', 0)); int(None) is a TypeError
MrtDistance(p) ==
    LET mrt == Get(p, "mrt_dist_m", Float(0))
    IN  IF mrt = None THEN Raises("TypeError")
        ELSE Returned(IntToStr(mrt[1] \div 100) \o <<"m">>)

\* lines 220-245
AssetRecord(p, c) ==
    LET ticker == Upper(Prefix(p["project_name"], 3))
        mrt_distance == MrtDistance(p)
    IN  IF mrt_distance.exc # "" THEN mrt_distance
        ELSE Returned(
          [id |-> HexPrefix(p["data_hash"], 12),
           identity |->
             [project |-> p["project_name"],
              type |-> Get(p, "bedrooms", <<"?">>) \o <<"-", "B", "e", "d", " ", "|", " ">>
                         \o Get(p, "area_sqft_range", <<"?">>) \o <<" ", "s", "q", "f", "t">>,
              district |-> <<"D">> \o Get(p, "district", <<"?">>)],
           financials |->
             [yield_apy |-> p["yield_apy"],
              est_valuation_sgd |-> "Dynamic (AMM)",
              tokens |-> [pt_ticker |-> <<"P", "T", "-">> \o ticker,
                          yt_ticker |-> <<"Y", "T", "-">> \o ticker \o <<"-", "2", "8">>]],
           insights |->
             [connectivity_score |-> p["connectivity_score"],
              risk_rating |-> c.risk_tier,
              compliance_note |-> c.reason,
              mrt_distance |-> mrt_distance.value],
           proof |-> [source |-> "URA_API_2026", data_hash |-> p["data_hash"]]])

\* ------------------------------------------------------------------------
\* The input file: rows as f.readlines() returns them.  A row is an identity
\* segment, a yield anchor and a location segment (distances, then tenure),
\* followed by the line terminator.
\* ------------------------------------------------------------------------
\* longest batch drawn
MaxRows == 2

\* lease years drawn on each side of CURRENT_YEAR - MIN_EC_AGE
YearSpread == 1

IdentitySegments ==
    << <<"P", "a", "r", "c", " ", "V", "u", "e", "3", "1", "0", "0", "0", "-",
         "1", "5", "0", "0", "0", "5", " ">>,
       <<"O", "a", "s", "i", "s", "n", ".", "a", ".", ">", "3", "0", "0", "0",
         "1", "0", " ">>,
       <<"l", "u", "m", "i", "n", "a", "2", "<", "1", "0", "0", "0", "0", "9", " ">>,
       <<"1", "0", "0", "0", "-", "1", "5", "0", "0", "0", "5", " ">>,
       <<"T", "e", "m", "b", "u", "s", "u", " ", "G", "r", "a", "n", "d", " ">>,
       <<"T", "h", "e", " ", "C", "o", "n", "t", "i", "n", "u", "u", "m", " ",
         "R", "e", "s", "i", "d", "e", "n", "c", "e", "s", " ">>,
       <<"A", "v", "e", "n", "u", "e", " ", "4", " ", "1", "0", "0", "0", "-",
         "1", "5", "0", "0", " ", "0", "5", " ">>,
       <<"S", "k", "y", "1", "0", "0", "0", "-", "1", "5", "0", "0", "0", "5">> >>

YieldSegments ==
    << <<"1", ".", "9", "7", "%">>,
       <<"2", ".", "0", "%">>,
       <<"4", ".", "5", "2", "%">> >>

DistanceSegments ==
    << <<>>,
       <<" ", "3", "5", "0", ".", "0", " ", "2", ".", "5", " ">>,
       <<" ", "3", "0", "0", "0", ".", "0", " ", "2", "5", ".", "0", " ">>,
       <<" ", "1", "2", " ">> >>

TenureHeads ==
    << <<"F", "r", "e", "e", "h", "o", "l", "d">>,
       <<"F", "R", "E", "E", "H", "O", "L", "D">>,
       <<"9", "9", "9", " ", "y", "r", "s">>,
       <<"9", "9", " ", "y", "r", "s">> >>

LeaseYears ==
    ((CURRENT_YEAR - MIN_EC_AGE - YearSpread)..(CURRENT_YEAR - MIN_EC_AGE + YearSpread))
      \cup {1999, CURRENT_YEAR + YearSpread}

\* the tenure texts: none, a head alone, a head with ' from <year>', and
\* 'Freehold' directly followed by a year
TenureSegments ==
    {<<>>, <<"F", "r", "e", "e", "h", "o", "l", "d", "1", "9", "9", "8">>}
      \cup {TenureHeads[h] : h \in 1..Len(TenureHeads)}
      \cup {TenureHeads[h] \o <<" ", "f", "r", "o", "m", " ">> \o IntToStr(y) :
              h \in 1..Len(TenureHeads), y \in LeaseYears}

Row(identity, yield, distances, tenure) ==
    identity \o yield \o distances \o tenure \o <<"\n">>

\* rows that carry a yield anchor
AnchoredRows ==
    {Row(IdentitySegments[i], YieldSegments[y], DistanceSegments[d], t) :
        i \in 1..Len(IdentitySegments), y \in 1..Len(YieldSegments),
        d \in 1..Len(DistanceSegments), t \in TenureSegments}

\* rows without an anchor, and rows shorter than 10 characters
OtherRows ==
    { <<"H", "e", "a", "d", "e", "r", " ", "r", "o", "w", " ", "w", "i", "t", "h",
        "o", "u", "t", " ", "y", "i", "e", "l", "d", "\n">>,
      <<"T", "e", "m", "b", "u", "s", "u", " ", "G", "r", "a", "n", "d", " ", "1",
        "0", "0", "0", "-", "1", "5", "0", "0", " ", "0", "5", " ", "F", "r", "e",
        "e", "h", "o", "l", "d", "\n">>,
      <<"1", ".", "9", "7", "%", "\n">>,
      <<"\n">>,
      \* the yield without its percent sign
      <<"S", "k", "y", " ", "1", "0", "0", "0", "-", "1", "5", "0", "0", " ",
        "0", "5", " ", "1", ".", "9", "7", " ", "3", "5", "0", ".", "0", " ",
        "2", ".", "5", " ", "F", "r", "e", "e", "h", "o", "l", "d", "\n">>,
      \* three digits after the point
      <<"S", "k", "y", " ", "1", "0", "0", "0", "-", "1", "5", "0", "0", " ",
        "0", "5", " ", "1", ".", "2", "3", "4", "%", " ", "3", "5", "0", ".",
        "0", " ", "2", ".", "5", " ", "F", "r", "e", "e", "h", "o", "l", "d",
        "\n">>,
      \* a percentage without a point
      <<"S", "k", "y", " ", "1", "0", "0", "0", "-", "1", "5", "0", "0", " ",
        "0", "5", " ", "1", "9", "7", "%", " ", "3", "5", "0", ".", "0", " ",
        "2", ".", "5", " ", "F", "r", "e", "e", "h", "o", "l", "d", "\n">>,
      \* 9 characters with the line terminator
      <<"A", "b", " ", "1", ".", "9", "7", "%", "\n">>,
      \* 10 characters with the line terminator
      <<"A", "b", "c", " ", "1", ".", "9", "7", "%", "\n">>,
      \* name, bedroom digit, 3-digit area bounds and district without separators
      <<"L", "o", "f", "t", "1", "7", "0", "0", "-", "9", "0", "0", "1", "2",
        " ", "4", ".", "5", "2", "%", " ", "3", "5", "0", ".", "0", " ", "2",
        ".", "5", " ", "F", "r", "e", "e", "h", "o", "l", "d", "\n">>,
      \* the tenure word in lower case
      <<"A", "v", "e", "n", "u", "e", " ", "4", " ", "1", "0", "0", "0", "-",
        "1", "5", "0", "0", " ", "0", "5", " ", "4", ".", "5", "2", "%", " ",
        "3", "5", "0", ".", "0", " ", "2", ".", "5", " ", "f", "r", "e", "e",
        "h", "o", "l", "d", "\n">>,
      \* a project name of two characters
      <<"A", "b", " ", "1", "0", "0", "0", "-", "1", "5", "0", "0", " ", "0",
        "5", " ", "4", ".", "5", "2", "%", " ", "3", "5", "0", ".", "0", " ",
        "2", ".", "5", " ", "F", "r", "e", "e", "h", "o", "l", "d", "\n">> }

\* the end-to-end scenario: area range 1000-1500, district 05, yield 1.97%,
\* location ending in 'Freehold from 1998'; the district written directly
\* after the range, and after a space
ScenarioRows ==
    { Row(<<"S", "k", "y", " ", "3", " ", "1", "0", "0", "0", "-", "1", "5", "0",
            "0", "0", "5", " ">>,
          YieldSegments[1], DistanceSegments[2],
          TenureHeads[1] \o <<" ", "f", "r", "o", "m", " ">> \o IntToStr(1998)),
      Row(<<"S", "k", "y", " ", "3", " ", "1", "0", "0", "0", "-", "1", "5", "0",
            "0", " ", "0", "5", " ">>,
          YieldSegments[1], DistanceSegments[2],
          TenureHeads[1] \o <<" ", "f", "r", "o", "m", " ">> \o IntToStr(1998)) }

AllRows == AnchoredRows \cup OtherRows \cup ScenarioRows

\* the rows batches of several rows are drawn from: one of each fate
BatchRows ==
    { \* approved, distances known
      Row(IdentitySegments[2], YieldSegments[3], DistanceSegments[2], TenureHeads[1]),
      \* approved, distances unknown
      Row(IdentitySegments[3], YieldSegments[1], DistanceSegments[1], TenureHeads[1]),
      \* approved leasehold, low connectivity
      Row(IdentitySegments[7], YieldSegments[2], DistanceSegments[3],
          TenureHeads[4] \o <<" ", "f", "r", "o", "m", " ">>
            \o IntToStr(CURRENT_YEAR - MIN_EC_AGE)),
      \* rejected leasehold
      Row(IdentitySegments[1], YieldSegments[3], DistanceSegments[2],
          TenureHeads[4] \o <<" ", "f", "r", "o", "m", " ">>
            \o IntToStr(CURRENT_YEAR - MIN_EC_AGE + 1)),
      \* flagged
      Row(IdentitySegments[5], YieldSegments[3], DistanceSegments[2], TenureHeads[4]),
      \* identity segment that starts with the area range
      Row(IdentitySegments[4], YieldSegments[3], DistanceSegments[2], TenureHeads[1]),
      \* no anchor
      <<"H", "e", "a", "d", "e", "r", " ", "r", "o", "w", " ", "w", "i", "t", "h",
        "o", "u", "t", " ", "y", "i", "e", "l", "d", "\n">>,
      \* short
      <<"1", ".", "9", "7", "%", "\n">> }

RECURSIVE SeqsUpTo(_, _)
SeqsUpTo(S, n) ==
    IF n = 0 THEN {<<>>}
    ELSE LET shorter == SeqsUpTo(S, n - 1)
         IN  shorter \cup {Append(q, x) : q \in shorter, x \in S}

\* the files read: every single row, and every batch of up to MaxRows rows
InputFiles == {<<r>> : r \in AllRows} \cup SeqsUpTo(BatchRows, MaxRows)

\* ------------------------------------------------------------------------
\* main (lines 194-254) as a state machine.  pc is the place in the loop;
\* status, reason and risk_score are the locals of check_compliance_and_risk
\* while it runs.
\* ------------------------------------------------------------------------
\* clean_data.py is not running
OracleIdle ==
    /\ raw_rows = <<>>
    /\ idx = 1
    /\ pc = "idle"
    /\ parsed = None
    /\ status = ""
    /\ reason = ""
    /\ risk_score = 0
    /\ compliance = None
    /\ processed_assets = <<>>
    /\ output_file = None
    /\ raised = ""

\* no call of the scorer from outside smart_parse_row
ScorerIdle == scorer_args = None /\ scorer_result = None

\* mint_assets.py is not running
AmmIdle == amm_pools = {} /\ submitted = <<>> /\ amm_call = None /\ oracle_txs = <<>>

MintIdle ==
    /\ mint_pc = "idle"
    /\ data_file = [exists |-> FALSE, assets |-> <<>>]
    /\ rlusd_file = None
    /\ assets = <<>>
    /\ asset_index = 0
    /\ updated_assets = <<>>
    /\ clawback_enabled = FALSE

Init ==
    /\ ScorerIdle
    /\ AmmIdle
    /\ MintIdle
    /\ raw_rows \in InputFiles
    /\ idx = 1
    /\ pc = "loop"
    /\ parsed = None
    /\ status = ""
    /\ reason = ""
    /\ risk_score = 0
    /\ compliance = None
    /\ processed_assets = <<>>
    /\ output_file = None
    /\ raised = ""

\* line 210: len(row) < 10
TooShort_Below5(row) == Len(row) < 5

TooShort(row) == Len(row) < 10

\* line 210: a row shorter than 10 characters is skipped
SkipShortRow ==
    /\ pc = "loop"
    /\ idx <= Len(raw_rows)
    /\ TooShort(raw_rows[idx])
    /\ idx' = idx + 1
    /\ UNCHANGED <<scorer_vars, amm_vars, mint_vars>>
    /\ UNCHANGED <<raw_rows, pc, parsed, status, reason, risk_score, compliance,
                   processed_assets, output_file, raised>>

\* lines 212-213: parsed = smart_parse_row(row); a None result goes on to the
\* next row, an exception escapes main
ParseRow ==
    /\ pc = "loop"
    /\ idx <= Len(raw_rows)
    /\ ~TooShort(raw_rows[idx])
    /\ LET call == smart_parse_row(raw_rows[idx])
       IN  IF call.exc # ""
           THEN /\ raised' = call.exc
                /\ pc' = "crashed"
                /\ UNCHANGED <<idx, parsed>>
           ELSE IF call.value = None
           THEN /\ parsed' = None
                /\ idx' = idx + 1
                /\ UNCHANGED <<pc, raised>>
           ELSE /\ parsed' = call.value
                /\ pc' = "eligibility"
                /\ UNCHANGED <<idx, raised>>
    /\ UNCHANGED <<scorer_vars, amm_vars, mint_vars>>
    /\ UNCHANGED <<raw_rows, status, reason, risk_score, compliance,
                   processed_assets, output_file>>

\* lines 152-173: the legal gate, then risk_score = 10
CheckEligibility ==
    /\ pc = "eligibility"
    /\ status' = Eligibility(parsed).status
    /\ reason' = Eligibility(parsed).reason
    /\ risk_score' = 10
    /\ pc' = "risk_tenure"
    /\ UNCHANGED <<scorer_vars, amm_vars, mint_vars>>
    /\ UNCHANGED <<raw_rows, idx, parsed, compliance, processed_assets,
                   output_file, raised>>

\* line 176
DeductLeasehold ==
    /\ pc = "risk_tenure"
    /\ risk_score' = AfterLeaseholdRule(parsed, risk_score)
    /\ pc' = "risk_connectivity"
    /\ UNCHANGED <<scorer_vars, amm_vars, mint_vars>>
    /\ UNCHANGED <<raw_rows, idx, parsed, status, reason, compliance,
                   processed_assets, output_file, raised>>

\* line 178
DeductConnectivity ==
    /\ pc = "risk_connectivity"
    /\ risk_score' = AfterConnectivityRule(parsed, risk_score)
    /\ pc' = "risk_yield"
    /\ UNCHANGED <<scorer_vars, amm_vars, mint_vars>>
    /\ UNCHANGED <<raw_rows, idx, parsed, status, reason, compliance,
                   processed_assets, output_file, raised>>

\* line 180
DeductYield ==
    /\ pc = "risk_yield"
    /\ risk_score' = AfterYieldRule(parsed, risk_score)
    /\ pc' = "tier"
    /\ UNCHANGED <<scorer_vars, amm_vars, mint_vars>>
    /\ UNCHANGED <<raw_rows, idx, parsed, status, reason, compliance,
                   processed_assets, output_file, raised>>

\* lines 183-192: the tier, and the return of the verdict to main
ReturnVerdict ==
    /\ pc = "tier"
    /\ compliance' = [status |-> status, reason |-> reason,
                      risk_tier |-> RiskTier(risk_score), score |-> risk_score]
    /\ status' = ""
    /\ reason' = ""
    /\ risk_score' = 0
    /\ pc' = "gate"
    /\ UNCHANGED <<scorer_vars, amm_vars, mint_vars>>
    /\ UNCHANGED <<raw_rows, idx, parsed, processed_assets, output_file, raised>>

\* lines 217-246, status APPROVED: the record is built and appended; an
\* exception raised while building it escapes main
EmitRecord ==
    /\ pc = "gate"
    /\ compliance.status = "APPROVED"
    /\ LET built == AssetRecord(parsed, compliance)
       IN  IF built.exc # ""
           THEN /\ raised' = built.exc
                /\ pc' = "crashed"
                /\ UNCHANGED <<idx, processed_assets>>
           ELSE /\ processed_assets' = Append(processed_assets, built.value)
                /\ idx' = idx + 1
                /\ pc' = "loop"
                /\ UNCHANGED raised
    /\ UNCHANGED <<scorer_vars, amm_vars, mint_vars>>
    /\ UNCHANGED <<raw_rows, parsed, status, reason, risk_score, compliance, output_file>>

\* line 217, any other status: nothing is appended
DiscardRow ==
    /\ pc = "gate"
    /\ compliance.status # "APPROVED"
    /\ idx' = idx + 1
    /\ pc' = "loop"
    /\ UNCHANGED <<scorer_vars, amm_vars, mint_vars>>
    /\ UNCHANGED <<raw_rows, parsed, status, reason, risk_score, compliance,
                   processed_assets, output_file, raised>>

\* lines 249-251: after the last row the collection is written
Export ==
    /\ pc = "loop"
    /\ idx > Len(raw_rows)
    /\ output_file' = processed_assets
    /\ pc' = "done"
    /\ UNCHANGED <<scorer_vars, amm_vars, mint_vars>>
    /\ UNCHANGED <<raw_rows, idx, parsed, status, reason, risk_score, compliance,
                   processed_assets, raised>>

Next ==
    \/ SkipShortRow
    \/ ParseRow
    \/ CheckEligibility
    \/ DeductLeasehold
    \/ DeductConnectivity
    \/ DeductYield
    \/ ReturnVerdict
    \/ EmitRecord
    \/ DiscardRow
    \/ Export

Spec == Init /\ [][Next]_vars

\* ------------------------------------------------------------------------
\* Properties
\* ------------------------------------------------------------------------
\* the row the loop is at
AtRow == pc = "loop" /\ idx <= Len(raw_rows)

HasAnchor(row) == YieldSearch(Strip(row)) # 0

\* smart_parse_row has returned a dict for the current row
Parsed == pc \in {"eligibility", "risk_tenure", "risk_connectivity", "risk_yield",
                  "tier", "gate"}

\* check_compliance_and_risk has returned its verdict for the current row
AtGate == pc = "gate"

\* C1: smart_parse_row never raises: for every row with a yield anchor,
\* whatever stands before and after the anchor, the call returns a field
\* mapping and no exception escapes it.
C1_ParseNeverRaises ==
    [][(AtRow /\ Len(raw_rows[idx]) >= 10 /\ HasAnchor(raw_rows[idx])) =>
          (raised' = "" /\ pc' = "eligibility" /\ parsed' # None)]_vars

\* C2: for a row that parsed, the step of main that follows the verdict
\* appends exactly one record when the status is APPROVED and none otherwise,
\* also when the MRT distance of the approved row is unknown.
C2_RecordIffApproved ==
    [][AtGate => Len(processed_assets') = Len(processed_assets)
                   + (IF compliance.status = "APPROVED" THEN 1 ELSE 0)]_vars

\* C3: the end-to-end scenario row parses to area '1000-1500', district
\* '05', yield 1.97 and tenure type Freehold/999yr, is APPROVED, and its
\* record is written.
C3_EndToEndScenario ==
    (Len(raw_rows) = 1 /\ raw_rows[1] \in ScenarioRows) =>
        /\ pc # "crashed"
        /\ Parsed =>
             /\ Get(parsed, "area_sqft_range", <<>>) = <<"1", "0", "0", "0", "-", "1", "5", "0", "0">>
             /\ Get(parsed, "district", <<>>) = <<"0", "5">>
             /\ parsed["yield_apy"] = 197
             /\ parsed["tenure_type"] = "Freehold/999yr"
        /\ AtGate => compliance.status = "APPROVED"
        /\ pc = "done" => Len(output_file) = 1

ExtractedKeys ==
    {"project_name", "bedrooms", "area_sqft_range", "district", "yield_apy",
     "mrt_dist_m", "cbd_dist_km", "tenure_type", "commence_year",
     "connectivity_score", "data_hash"}

\* C4: every dict smart_parse_row returns holds all the field keys, on every
\* parse path.
C4_AllKeysPresent == Parsed => ExtractedKeys \subseteq DOMAIN parsed

\* the row is one main appends a record for when it is the only row
RowApproved(row) ==
    /\ Len(row) >= 10
    /\ smart_parse_row(row).exc = ""
    /\ smart_parse_row(row).value # None
    /\ Eligibility(smart_parse_row(row).value).status = "APPROVED"

\* C5: rows are handled independently: no row stops the loop, the export is
\* reached, and the written output holds the record of a row exactly when
\* that row is an approved one, whatever the other rows of the batch are.
C5_RowsIndependent ==
    /\ pc # "crashed"
    /\ pc = "done" =>
         \A i \in 1..Len(raw_rows) :
             RowApproved(raw_rows[i]) <=>
                 \E k \in 1..Len(output_file) :
                     output_file[k].proof.data_hash = Sha256Hex(raw_rows[i])

\* C6: a Leasehold record with a known commencement year is APPROVED exactly
\* when CURRENT_YEAR - commence_year >= MIN_EC_AGE and REJECTED otherwise;
\* year CURRENT_YEAR - 10 is APPROVED, year CURRENT_YEAR - 9 is REJECTED.
C6_LeaseholdAgeGate ==
    (AtGate /\ parsed["tenure_type"] = "Leasehold" /\ parsed["commence_year"] > 0) =>
        /\ compliance.status =
             (IF CURRENT_YEAR - parsed["commence_year"] >= MIN_EC_AGE
              THEN "APPROVED" ELSE "REJECTED")
        /\ parsed["commence_year"] = CURRENT_YEAR - 10 => compliance.status = "APPROVED"
        /\ parsed["commence_year"] = CURRENT_YEAR - 9 => compliance.status = "REJECTED"

C6_Witness ==
    /\ AtGate
    /\ parsed["tenure_type"] = "Leasehold"
    /\ parsed["commence_year"] = CURRENT_YEAR - 10
    /\ compliance.status = "APPROVED"

\* C7: a Freehold/999yr record is APPROVED whatever its commencement year,
\* yield and connectivity score are.
C7_FreeholdApproved ==
    (AtGate /\ parsed["tenure_type"] = "Freehold/999yr") => compliance.status = "APPROVED"

C7_Witness ==
    /\ AtGate
    /\ parsed["tenure_type"] = "Freehold/999yr"
    /\ parsed["commence_year"] > CURRENT_YEAR
    /\ parsed["connectivity_score"] < 500
    /\ parsed["yield_apy"] < 200
    /\ compliance.status = "APPROVED"

\* the record lacks eligibility information
LacksEligibility ==
    \/ parsed["tenure_type"] = "Unknown"
    \/ parsed["tenure_type"] = "Leasehold" /\ parsed["commence_year"] = 0

\* C8: Leasehold with commencement year 0 is FLAGGED with reason 'Unknown
\* Lease Year', tenure Unknown is REJECTED with reason 'Unknown', and in
\* both cases main appends no record for the row.
C8_NoEligibilityNoRecord ==
    /\ [](AtGate =>
            /\ (parsed["tenure_type"] = "Leasehold" /\ parsed["commence_year"] = 0) =>
                 (compliance.status = "FLAGGED" /\ compliance.reason = "Unknown Lease Year")
            /\ parsed["tenure_type"] = "Unknown" =>
                 (compliance.status = "REJECTED" /\ compliance.reason = "Unknown"))
    /\ [][(AtGate /\ LacksEligibility) =>
            (processed_assets' = processed_assets /\ idx' = idx + 1)]_vars

C8_Witness ==
    /\ pc = "done"
    /\ Len(raw_rows) = 1
    /\ parsed # None
    /\ parsed["tenure_type"] = "Leasehold"
    /\ parsed["commence_year"] = 0
    /\ compliance.status = "FLAGGED"
    /\ output_file = <<>>

\* C9: the tier is a function of the score alone: score <= 5 gives C, 6 or
\* 7 gives B, 8 or more gives A.
C9_TierBoundaries ==
    AtGate =>
        /\ compliance.score <= 5 => compliance.risk_tier = "C (High Risk)"
        /\ compliance.score \in {6, 7} => compliance.risk_tier = "B (Medium Risk)"
        /\ compliance.score >= 8 => compliance.risk_tier = "A (Low Risk)"

C9_Witness ==
    AtGate /\ compliance.score = 5 /\ compliance.risk_tier = "C (High Risk)"

\* C10: the risk score of every record, whatever its status, is 10 minus 2
\* if Leasehold, minus 2 if the connectivity score is below 50, minus 1 if
\* the yield is below 2.0; it lies in 5..10 and never increases while the
\* rules are applied.
C10_RiskScore ==
    /\ [](AtGate =>
            /\ compliance.score =
                 10 - (IF parsed["tenure_type"] = "Leasehold" THEN 2 ELSE 0)
                    - (IF parsed["connectivity_score"] < 500 THEN 2 ELSE 0)
                    - (IF parsed["yield_apy"] < 200 THEN 1 ELSE 0)
            /\ compliance.score \in 5..10)
    /\ [][(pc \in {"risk_tenure", "risk_connectivity", "risk_yield"}) =>
            (risk_score' <= risk_score)]_vars

C10_Witness ==
    /\ AtGate
    /\ compliance.status = "FLAGGED"
    /\ compliance.score = 5

\* the raw line holds 1-2 digits, a point, 1-2 digits and a percent sign in
\* a row, somewhere
HasYieldSubstring(row) ==
    \E i \in 1..Len(row), a \in 1..2, b \in 1..2 :
        /\ i + a + b + 1 <= Len(row)
        /\ \A k \in i..(i + a - 1) : row[k] \in Digit
        /\ row[i + a] = "."
        /\ \A k \in (i + a + 1)..(i + a + b) : row[k] \in Digit
        /\ row[i + a + b + 1] = "%"

\* C13: for a raw line without a yield substring smart_parse_row returns
\* None, main goes on to the next line without appending, and the written
\* output holds no record of that line.
C13_NoAnchorNoRecord ==
    /\ []((AtRow /\ ~HasYieldSubstring(raw_rows[idx])) =>
            smart_parse_row(raw_rows[idx]) = Returned(None))
    /\ [][(AtRow /\ Len(raw_rows[idx]) >= 10 /\ ~HasYieldSubstring(raw_rows[idx])) =>
            /\ parsed' = None
            /\ pc' = "loop"
            /\ idx' = idx + 1
            /\ processed_assets' = processed_assets
            /\ raised' = ""]_vars
    /\ [](pc = "done" =>
            \A i \in 1..Len(raw_rows) :
                ~HasYieldSubstring(raw_rows[i]) =>
                    \A k \in 1..Len(output_file) :
                        output_file[k].proof.data_hash # Sha256Hex(raw_rows[i]))

C13_Witness ==
    /\ pc = "done"
    /\ Len(raw_rows) = 2
    /\ Len(raw_rows[1]) >= 10
    /\ ~HasYieldSubstring(raw_rows[1])
    /\ Len(output_file) = 1

\* C16: a line shorter than 10 characters is skipped before parsing: the
\* step of main at such a line goes on to the next line, smart_parse_row is
\* not applied (nothing is parsed, nothing is raised), and the written
\* output holds no record of the line.
C16_ShortLineSkipped ==
    /\ [][(AtRow /\ Len(raw_rows[idx]) < 10) =>
            /\ idx' = idx + 1
            /\ pc' = "loop"
            /\ parsed' = parsed
            /\ raised' = raised
            /\ processed_assets' = processed_assets]_vars
    /\ [](pc = "done" =>
            \A i \in 1..Len(raw_rows) :
                Len(raw_rows[i]) < 10 =>
                    \A k \in 1..Len(output_file) :
                        output_file[k].proof.data_hash # Sha256Hex(raw_rows[i]))

C16_Witness ==
    /\ pc = "done"
    /\ Len(raw_rows) = 2
    /\ Len(raw_rows[1]) < 10
    /\ HasYieldSubstring(raw_rows[1])
    /\ Len(output_file) = 1

\* C14: the content hash is the digest of the raw line and of nothing else:
\* the dict parsed from a line holds the digest of that line, two equal
\* lines of a batch give records with equal data_hash, and the id of every
\* emitted record is the first 12 characters of its own proof.data_hash.
C14_ContentHash ==
    /\ Parsed => parsed["data_hash"] = Sha256Hex(raw_rows[idx])
    /\ \A k \in 1..Len(processed_assets) :
           /\ processed_assets[k].id = HexPrefix(processed_assets[k].proof.data_hash, 12)
           /\ \E i \in 1..Len(raw_rows) :
                  processed_assets[k].proof.data_hash = [sha256 |-> raw_rows[i]]
    /\ (pc = "done" /\ Len(raw_rows) = 2 /\ raw_rows[1] = raw_rows[2]
          /\ Len(output_file) = 2) =>
           output_file[1].proof.data_hash = output_file[2].proof.data_hash

C14_Witness ==
    /\ pc = "done"
    /\ Len(raw_rows) = 2
    /\ raw_rows[1] = raw_rows[2]
    /\ Len(output_file) = 2
    /\ output_file[1].id = HexPrefix(Sha256Hex(raw_rows[2]), 12)

\* name[:3].upper(), character by character
TickerPrefixOf(name) ==
    [j \in 1..(IF Len(name) < 3 THEN Len(name) ELSE 3) |-> ToUpper(name[j])]

\* C15: in every emitted record pt_ticker is 'PT-' + X and yt_ticker is
\* 'YT-' + X + '-28' for the same X, the upper-cased first three characters
\* of the record's project name; and the record appended for a row holds
\* the row's yield_apy and connectivity_score and the verdict's risk tier and
\* reason unchanged.
C15_TickersAndCopies ==
    /\ [](\A k \in 1..Len(processed_assets) :
             /\ processed_assets[k].financials.tokens.pt_ticker =
                  <<"P", "T", "-">> \o TickerPrefixOf(processed_assets[k].identity.project)
             /\ processed_assets[k].financials.tokens.yt_ticker =
                  <<"Y", "T", "-">> \o TickerPrefixOf(processed_assets[k].identity.project)
                    \o <<"-", "2", "8">>)
    /\ [][(AtGate /\ Len(processed_assets') = Len(processed_assets) + 1) =>
            LET record == processed_assets'[Len(processed_assets')]
            IN  /\ record.identity.project = parsed["project_name"]
                /\ record.financials.yield_apy = parsed["yield_apy"]
                /\ record.insights.connectivity_score = parsed["connectivity_score"]
                /\ record.insights.risk_rating = compliance.risk_tier
                /\ record.insights.compliance_note = compliance.reason]_vars

C15_Witness ==
    /\ pc = "done"
    /\ Len(output_file) = 1
    /\ output_file[1].identity.project = <<"A", "b">>
    /\ output_file[1].financials.tokens.pt_ticker = <<"P", "T", "-", "A", "B">>
    /\ output_file[1].financials.tokens.yt_ticker = <<"Y", "T", "-", "A", "B", "-", "2", "8">>
    /\ output_file[1].financials.yield_apy = 452

\* identity segments in the smashed format, with the parts they are made of
SmashedIdentities ==
    { [name |-> <<"P", "a", "r", "c", " ", "V", "u", "e">>, bedrooms |-> <<"3">>,
       area |-> <<"1", "0", "0", "0", "-", "1", "5", "0", "0">>,
       district |-> <<"0", "5">>],
      [name |-> <<"L", "o", "f", "t">>, bedrooms |-> <<"1">>,
       area |-> <<"7", "0", "0", "-", "9", "0", "0">>,
       district |-> <<"1", "2">>] }

SmashedText(s) == s.name \o s.bedrooms \o s.area \o s.district

\* the smashed identity the current row starts with
SmashedAtRow ==
    {s \in SmashedIdentities :
        Prefix(raw_rows[idx], Len(SmashedText(s)) + 1) = SmashedText(s) \o <<" ">>}

\* C19: for a row whose identity segment is name + bedroom digit + lo-hi +
\* 2-digit district without separators, the parsed dict holds that name,
\* that digit as bedrooms, exactly lo-hi as area_sqft_range and the 2-digit
\* code as district.
C19_SmashedIdentity ==
    Parsed =>
        \A s \in SmashedAtRow :
            /\ parsed["project_name"] = s.name
            /\ Get(parsed, "bedrooms", <<>>) = s.bedrooms
            /\ parsed["area_sqft_range"] = s.area
            /\ Get(parsed, "district", <<>>) = s.district

\* right_side of a stripped line that has an anchor (line 62)
RightSideOf(text) ==
    Slice(text, YieldSearch(text) + YieldLenAt(text, YieldSearch(text)), Len(text))

\* the numbers of the location text of a row: findall on the text before the
\* tenure match, or on all of right_side when there is no tenure match
NumbersOfRightSide(right_side) ==
    FindFloats(LocTextAt(right_side, TenureSearch(right_side)), 1)

LocationNumbers(row) == NumbersOfRightSide(RightSideOf(Strip(row)))

\* the two-number rule on the dict p, for the n numbers N
TwoNumberRule(p, N, n) ==
    IF n >= 2
    THEN /\ p["cbd_dist_km"] = Float(ParseFloat(N[n]))
         /\ p["mrt_dist_m"] = Float(ParseFloat(N[n - 1]))
    ELSE /\ p["cbd_dist_km"] = None
         /\ p["mrt_dist_m"] = None
         /\ p["connectivity_score"] = 0

\* C20: with N the numbers of the location text, when N has two or more
\* elements cbd_dist_km is the last and mrt_dist_m the one before it; with
\* fewer, both distances are None and the connectivity score is 0.
C20_TwoNumberRule ==
    Parsed => TwoNumberRule(parsed, LocationNumbers(raw_rows[idx]),
                            Len(LocationNumbers(raw_rows[idx])))

\* three numbers in the location text: '350.0', '2.5' and the year of a
\* 'Freehold from <year>' that is not a tenure match
C20_Witness ==
    /\ Parsed
    /\ parsed["tenure_type"] = "Unknown"
    /\ Len(LocationNumbers(raw_rows[idx])) = 3
    /\ parsed["mrt_dist_m"] = Float(250)
    /\ parsed["cbd_dist_km"] = Float(100 * (CURRENT_YEAR - MIN_EC_AGE))

\* ------------------------------------------------------------------------
\* calculate_connectivity_score called on its own: the operands are drawn,
\* the call is one step.
\* ------------------------------------------------------------------------
\* an operand arithmetic is not defined on: the list [350.0, 2.5]
InvalidOperand == <<35000, 250>>

\* MRT distances, in hundredths of a metre: negative, below and at 200 m,
\* just above it, and up to where the score reaches 0
MrtOperands ==
    {None, InvalidOperand}
      \cup {Float(v) : v \in {-5000, 0, 15000, 20000, 20100, 25000, 35000, 100700,
                               300000, 853300, 853400, 900000}}

\* CBD distances, in hundredths of a kilometre
CbdOperands ==
    {None, InvalidOperand}
      \cup {Float(v) : v \in {-100, 0, 50, 250, 333, 2500, 12500, 13000}}

ScorerInit ==
    /\ OracleIdle
    /\ AmmIdle
    /\ MintIdle
    /\ scorer_args \in [mrt_m : MrtOperands, cbd_km : CbdOperands]
    /\ scorer_result = None

\* lines 18-36: one call
CallScorer ==
    /\ scorer_args # None
    /\ scorer_result = None
    /\ scorer_result' = ScoreOutcome(scorer_args.mrt_m, scorer_args.cbd_km)
    /\ UNCHANGED <<scorer_args, oracle_vars, amm_vars, mint_vars>>

ScorerNext == CallScorer

ScorerSpec == ScorerInit /\ [][ScorerNext]_vars

\* the call has returned or raised
Scored == scorer_result # None

\* the operand is a known distance that is not negative
KnownDistance(x) == IsFloat(x) /\ x[1] >= 0

\* C11: for every pair of operands the call raises nothing and returns a
\* value in [0, 100] (0..1000 tenths); the value is 0 when an operand is
\* None or is not a number.
C11_ScoreInRange ==
    Scored =>
        /\ scorer_result.exc = ""
        /\ scorer_result.value \in 0..1000
        /\ (\/ scorer_args.mrt_m \in {None, InvalidOperand}
            \/ scorer_args.cbd_km \in {None, InvalidOperand}) =>
               scorer_result.value = 0

C11_Witness ==
    /\ scorer_args = [mrt_m |-> InvalidOperand, cbd_km |-> Float(250)]
    /\ scorer_result = Returned(0)

\* C12: for known non-negative distances the score does not increase when
\* the MRT distance grows with the CBD distance fixed, nor when the CBD
\* distance grows with the MRT distance fixed; at or below 200 m the score
\* is the one of 0 m; and the score of (200 m, 0 km) is 100.0.
C12_Monotone ==
    (Scored /\ KnownDistance(scorer_args.mrt_m) /\ KnownDistance(scorer_args.cbd_km)) =>
        /\ \A m \in MrtOperands :
               (KnownDistance(m) /\ m[1] >= scorer_args.mrt_m[1]) =>
                   calculate_connectivity_score(m, scorer_args.cbd_km)
                     <= scorer_result.value
        /\ \A c \in CbdOperands :
               (KnownDistance(c) /\ c[1] >= scorer_args.cbd_km[1]) =>
                   calculate_connectivity_score(scorer_args.mrt_m, c)
                     <= scorer_result.value
        /\ scorer_args.mrt_m[1] <= 20000 =>
               scorer_result.value =
                   calculate_connectivity_score(Float(0), scorer_args.cbd_km)
        /\ scorer_args = [mrt_m |-> Float(20000), cbd_km |-> Float(0)] =>
               scorer_result.value = 1000

C12_Witness ==
    /\ scorer_args = [mrt_m |-> Float(20000), cbd_km |-> Float(0)]
    /\ scorer_result = Returned(1000)

\* ------------------------------------------------------------------------
\* mint_assets.py: the ledger and the AMM functions.  The ledger is held as
\* [pools, submitted]: the currencies of the issuer that have a pool against
\* XRP, and the AMMCreate transactions submitted so far.
\* ------------------------------------------------------------------------
\* str_to_hex(ticker).ljust(40, '0'): the code is not computed; it is held
\* as the 40-character code of ticker, a value that differs for different
\* tickers
CurrencyCode(ticker) == [hex |-> ticker, width |-> 40]

\* line 289
RLUSD == <<"R", "L", "U", "S", "D">>

\* client.request(AMMInfo(...)) (lines 167-174, 229-236): the result holds
\* the pool ('amm') when there is one and none otherwise, or the request
\* raises
AmmInfoOutcomes(pools, currency) ==
    IF currency \in pools THEN {"amm", "raises"} ELSE {"none", "raises"}

\* submit_and_wait(AMMCreate(...)) (lines 195, 256, 325): validated, or an
\* exception; the ledger holds one pool for a pair, so AMMCreate for a
\* currency that has a pool fails
AmmCreateOutcomes(pools, currency) ==
    IF currency \in pools THEN {"raises"} ELSE {"validated", "raises"}

\* one AMMCreate submitted (lines 189-195, 250-256, 319-325)
SubmitAmmCreate(ledger, currency, outcome) ==
    [pools |-> IF outcome = "validated" THEN ledger.pools \cup {currency}
               ELSE ledger.pools,
     submitted |-> Append(ledger.submitted,
                          [tx |-> "AMMCreate", currency |-> currency,
                           pool_existed |-> currency \in ledger.pools])]

\* lines 207-261: the check (True when the result holds a pool; any
\* exception is passed over), then the creation (True when validated, False
\* when it raised)
create_amm_pool_for_token(ledger, currency, info, create) ==
    IF info = "amm" THEN [result |-> TRUE, ledger |-> ledger]
    ELSE [result |-> (create = "validated"),
          ledger |-> SubmitAmmCreate(ledger, currency, create)]

\* lines 143-204: the same check and creation, for the yield token of
\* asset_data
create_amm_pool(ledger, asset_data, info, create) ==
    IF info = "amm" THEN [result |-> TRUE, ledger |-> ledger]
    ELSE [result |-> (create = "validated"),
          ledger |-> SubmitAmmCreate(
                       ledger,
                       CurrencyCode(asset_data["financials"].tokens.yt_ticker),
                       create)]

\* lines 300-329 of mint_mock_rlusd: the pool of RLUSD, and the larger pool
\* submitted when create_amm_pool_for_token returned False
RetryRlusdPool(first, retry) ==
    IF first.result THEN first
    ELSE [result |-> (retry = "validated"),
          ledger |-> SubmitAmmCreate(first.ledger, CurrencyCode(RLUSD), retry)]

RlusdPool(ledger, info, create, retry) ==
    RetryRlusdPool(create_amm_pool_for_token(ledger, CurrencyCode(RLUSD), info, create),
                   retry)

\* ------------------------------------------------------------------------
\* The assets mint_assets.py loads: records as clean_data.py writes them
\* ------------------------------------------------------------------------
\* check_compliance_and_risk (lines 147-192) as one value
Verdict(p) ==
    [status |-> Eligibility(p).status,
     reason |-> Eligibility(p).reason,
     risk_tier |-> RiskTier(AfterYieldRule(p, AfterConnectivityRule(p,
                                              AfterLeaseholdRule(p, 10)))),
     score |-> AfterYieldRule(p, AfterConnectivityRule(p, AfterLeaseholdRule(p, 10)))]

\* the record main of clean_data.py appends for an approved row
RecordOf(p) == AssetRecord(p, Verdict(p)).value

WrittenRecord(row) == RecordOf(smart_parse_row(row).value)

\* the issuer wallet of this run, and the one of an earlier run
IssuerAddress == "rIssuerOfThisRun"

EarlierIssuerAddress == "rIssuerOfAnEarlierRun"

\* lines 568-572
FailedChainInfo(error, issuer) ==
    [error |-> error, issuer |-> issuer, status |-> "failed"]

\* asset['chain_info'] = chain_info
WithChainInfo(asset, chain_info) ==
    [k \in DOMAIN asset \cup {"chain_info"} |->
        IF k = "chain_info" THEN chain_info ELSE asset[k]]

\* two units of one project (the same tickers), a unit of another project,
\* and an asset that carries the chain_info of an earlier, failed run
MintableAssets ==
    << WrittenRecord(Row(IdentitySegments[2], YieldSegments[3], DistanceSegments[2],
                         TenureHeads[1])),
       WrittenRecord(Row(IdentitySegments[2], YieldSegments[2], DistanceSegments[2],
                         TenureHeads[1])),
       WrittenRecord(Row(IdentitySegments[7], YieldSegments[3], DistanceSegments[2],
                         TenureHeads[1])),
       WithChainInfo(WrittenRecord(Row(IdentitySegments[7], YieldSegments[2],
                                       DistanceSegments[2], TenureHeads[1])),
                     FailedChainInfo("Exception", EarlierIssuerAddress)) >>

YtCurrency(asset) == CurrencyCode(asset["financials"].tokens.yt_ticker)

PtCurrency(asset) == CurrencyCode(asset["financials"].tokens.pt_ticker)

\* ------------------------------------------------------------------------
\* The AMM functions called one after another on a ledger that may already
\* hold pools of the issuer.
\* ------------------------------------------------------------------------
\* number of calls made in a sequence
MaxAmmCalls == 3

\* the currencies the calls are made for
AmmCurrencies ==
    {CurrencyCode(RLUSD), YtCurrency(MintableAssets[1]), PtCurrency(MintableAssets[1])}

Ledger == [pools |-> amm_pools, submitted |-> submitted]

CallsMade == IF amm_call = None THEN 0 ELSE amm_call.n

\* the call fn for currency has returned done.result and left done.ledger
AmmReturn(fn, currency, done) ==
    /\ amm_pools' = done.ledger.pools
    /\ submitted' = done.ledger.submitted
    /\ amm_call' = [fn |-> fn, currency |-> currency,
                    pool_existed |-> currency \in amm_pools,
                    result |-> done.result,
                    creates |-> Len(done.ledger.submitted) - Len(submitted),
                    n |-> CallsMade + 1]
    /\ UNCHANGED oracle_txs

AmmInit ==
    /\ OracleIdle
    /\ ScorerIdle
    /\ MintIdle
    /\ amm_pools \in SUBSET AmmCurrencies
    /\ submitted = <<>>
    /\ amm_call = None
    /\ oracle_txs = <<>>

CallCreateAmmPool ==
    /\ CallsMade < MaxAmmCalls
    /\ \E a \in 1..Len(MintableAssets) :
         \E info \in AmmInfoOutcomes(amm_pools, YtCurrency(MintableAssets[a])),
            create \in AmmCreateOutcomes(amm_pools, YtCurrency(MintableAssets[a])) :
             AmmReturn("create_amm_pool", YtCurrency(MintableAssets[a]),
                       create_amm_pool(Ledger, MintableAssets[a], info, create))
    /\ UNCHANGED <<oracle_vars, scorer_vars, mint_vars>>

CallCreateAmmPoolForToken ==
    /\ CallsMade < MaxAmmCalls
    /\ \E currency \in AmmCurrencies :
         \E info \in AmmInfoOutcomes(amm_pools, currency),
            create \in AmmCreateOutcomes(amm_pools, currency) :
             AmmReturn("create_amm_pool_for_token", currency,
                       create_amm_pool_for_token(Ledger, currency, info, create))
    /\ UNCHANGED <<oracle_vars, scorer_vars, mint_vars>>

CallMintMockRlusd ==
    /\ CallsMade < MaxAmmCalls
    /\ \E info \in AmmInfoOutcomes(amm_pools, CurrencyCode(RLUSD)),
          create \in AmmCreateOutcomes(amm_pools, CurrencyCode(RLUSD)),
          retry \in AmmCreateOutcomes(amm_pools, CurrencyCode(RLUSD)) :
           AmmReturn("mint_mock_rlusd", CurrencyCode(RLUSD),
                     RlusdPool(Ledger, info, create, retry))
    /\ UNCHANGED <<oracle_vars, scorer_vars, mint_vars>>

AmmNext ==
    \/ CallCreateAmmPool
    \/ CallCreateAmmPoolForToken
    \/ CallMintMockRlusd

AmmSpec == AmmInit /\ [][AmmNext]_vars

\* C17: a call of create_amm_pool or create_amm_pool_for_token for a token
\* that has a pool submits no AMMCreate and returns True, and no AMMCreate
\* is ever submitted for a token that has a pool.
C17_PoolCreationIdempotent ==
    /\ (amm_call # None /\ amm_call.pool_existed) =>
           (amm_call.creates = 0 /\ amm_call.result = TRUE)
    /\ \A k \in 1..Len(submitted) : ~submitted[k].pool_existed

\* ------------------------------------------------------------------------
\* main of mint_assets.py (lines 468-627).  The issuer wallet is new, so the
\* ledger holds no pool of it when main starts.  One step of the loop is
\* one asset.
\* ------------------------------------------------------------------------
\* longest file drawn
MaxAssets == 5

\* the k-th record of the longest file
AssetAt(k) == MintableAssets[((k - 1) % Len(MintableAssets)) + 1]

\* DATA_FILE as clean_data.py or an earlier run left it: every run of
\* consecutive records of the longest file
AssetFiles ==
    {[j \in 1..p[2] |-> AssetAt(p[1] + j - 1)] :
        p \in {q \in (1..MaxAssets) \X (0..MaxAssets) : q[1] + q[2] - 1 <= MaxAssets}}

\* set_oracle_price (lines 115-140): the id it returns, oracle_doc_id when
\* the OracleSet was submitted and an 'oracle_...' id when it raised
OracleId(index, oracle) ==
    IF oracle = "published"
    THEN [id |-> "hex(time + index)", index |-> index]
    ELSE [id |-> "oracle_<address[:8]><time>", index |-> index]

\* lines 117-127: the OracleSet transaction of asset_data; oracle_doc_id is
\* hex(time + index), and the transaction carries its integer value
OracleSetTx(asset_data, index) ==
    [tx |-> "OracleSet",
     oracle_document_id |-> OracleId(index, "published"),
     currency |-> YtCurrency(asset_data)]

\* line 128: the ledger after submit_and_wait; the transaction is on it
\* when it was validated, and not when submit_and_wait raised
SubmitOracleSet(txs, asset_data, index, oracle) ==
    IF oracle = "published" THEN Append(txs, OracleSetTx(asset_data, index)) ELSE txs

\* mint_asset_on_chain (lines 361-465): the chain_info it returns, given
\* what set_oracle_price and the two create_amm_pool_for_token calls gave
mint_asset_on_chain(asset_data, index, oracle_id, yt_amm, pt_amm) ==
    [issuer |-> IssuerAddress,
     tokens |-> [pt |-> [currency |-> PtCurrency(asset_data),
                         ticker |-> asset_data["financials"].tokens.pt_ticker],
                 yt |-> [currency |-> YtCurrency(asset_data),
                         ticker |-> asset_data["financials"].tokens.yt_ticker]],
     human_name |-> asset_data["identity"].project,
     currency |-> YtCurrency(asset_data),
     ticker |-> asset_data["financials"].tokens.yt_ticker,
     oracle |-> [document_id |-> oracle_id, asset_class |-> "RWA", price_set |-> TRUE],
     amm |-> [yt |-> [exists |-> yt_amm, trading_fee |-> 50, pool |-> "YT/XRP"],
              pt |-> [exists |-> pt_amm, trading_fee |-> 50, pool |-> "PT/XRP"],
              exists |-> (yt_amm \/ pt_amm),
              trading_fee |-> 50,
              liquidity_provided |-> (yt_amm \/ pt_amm)],
     token_standard |-> "XLS-33 (Issued Currency)"]

\* line 554
WithClawback(chain_info, enabled) ==
    [k \in DOMAIN chain_info \cup {"clawback_enabled"} |->
        IF k = "clawback_enabled" THEN enabled ELSE chain_info[k]]

MintInit ==
    /\ OracleIdle
    /\ ScorerIdle
    /\ AmmIdle
    /\ mint_pc = "start"
    /\ data_file \in {[exists |-> FALSE, assets |-> <<>>]}
                      \cup {[exists |-> TRUE, assets |-> f] : f \in AssetFiles}
    /\ rlusd_file = None
    /\ assets = <<>>
    /\ asset_index = 0
    /\ updated_assets = <<>>
    /\ clawback_enabled = FALSE

\* lines 497-500: the wallet from the faucet (an exception of the faucet
\* escapes main), then configure_issuer, True or False
SetUpIssuer ==
    /\ mint_pc = "start"
    /\ \E wallet \in {"funded", "raises"} :
         IF wallet = "raises"
         THEN mint_pc' = "crashed" /\ UNCHANGED clawback_enabled
         ELSE mint_pc' = "rlusd" /\ clawback_enabled' \in BOOLEAN
    /\ UNCHANGED <<data_file, rlusd_file, assets, asset_index, updated_assets>>
    /\ UNCHANGED <<oracle_vars, scorer_vars, amm_vars>>

\* the call of mint_mock_rlusd has left done.ledger, and rlusd_info is
\* written (lines 353-358, 513-515)
RlusdReturn(done) ==
    /\ amm_pools' = done.ledger.pools
    /\ submitted' = done.ledger.submitted
    /\ rlusd_file' = [issuer |-> IssuerAddress, currency |-> CurrencyCode(RLUSD),
                      ticker |-> RLUSD, amm_exists |-> done.result]
    /\ UNCHANGED oracle_txs

\* lines 508-516
MintMockRlusd ==
    /\ mint_pc = "rlusd"
    /\ \E info \in AmmInfoOutcomes(amm_pools, CurrencyCode(RLUSD)),
          create \in AmmCreateOutcomes(amm_pools, CurrencyCode(RLUSD)),
          retry \in AmmCreateOutcomes(amm_pools, CurrencyCode(RLUSD)) :
           RlusdReturn(RlusdPool(Ledger, info, create, retry))
    /\ mint_pc' = "load"
    /\ UNCHANGED <<data_file, assets, asset_index, updated_assets, clawback_enabled,
                   amm_call>>
    /\ UNCHANGED <<oracle_vars, scorer_vars>>

\* lines 519-528, 540: the file is read, or main returns when there is none
LoadAssets ==
    /\ mint_pc = "load"
    /\ IF data_file.exists
       THEN /\ assets' = data_file.assets
            /\ mint_pc' = "loop"
       ELSE /\ mint_pc' = "returned"
            /\ UNCHANGED assets
    /\ UNCHANGED <<data_file, rlusd_file, asset_index, updated_assets, clawback_enabled>>
    /\ UNCHANGED <<oracle_vars, scorer_vars, amm_vars>>

\* the asset of this turn of the loop (asset_index is i of line 549)
Asset == assets[asset_index + 1]

\* line 550; the variant mints every asset
ShouldMint_Every(index) == TRUE

ShouldMint(index) == index < 3

\* line 573, and the next turn
AppendAsset(asset) ==
    /\ updated_assets' = Append(updated_assets, asset)
    /\ asset_index' = asset_index + 1

\* lines 441-465 and 553-554: both pools done, chain_info is returned and
\* stored with clawback_enabled
MintReturn(oracle, yt_amm, pt_done) ==
    /\ amm_pools' = pt_done.ledger.pools
    /\ submitted' = pt_done.ledger.submitted
    /\ oracle_txs' = SubmitOracleSet(oracle_txs, Asset, asset_index, oracle)
    /\ AppendAsset(WithChainInfo(Asset,
                     WithClawback(mint_asset_on_chain(Asset, asset_index,
                                                      OracleId(asset_index, oracle),
                                                      yt_amm, pt_done.result),
                                  clawback_enabled)))

\* lines 433-439: the PT pool, on the ledger the YT call left
MintPtPool(oracle, yt_done) ==
    \E info \in AmmInfoOutcomes(yt_done.ledger.pools, PtCurrency(Asset)),
       create \in AmmCreateOutcomes(yt_done.ledger.pools, PtCurrency(Asset)) :
        MintReturn(oracle, yt_done.result,
                   create_amm_pool_for_token(yt_done.ledger, PtCurrency(Asset),
                                             info, create))

\* lines 550-565: mint_asset_on_chain returns
MintAsset ==
    /\ mint_pc = "loop"
    /\ asset_index < Len(assets)
    /\ ShouldMint(asset_index)
    /\ \E oracle \in {"published", "fallback"} :
         \E info \in AmmInfoOutcomes(amm_pools, YtCurrency(Asset)),
            create \in AmmCreateOutcomes(amm_pools, YtCurrency(Asset)) :
             MintPtPool(oracle,
                        create_amm_pool_for_token(Ledger, YtCurrency(Asset),
                                                  info, create))
    /\ UNCHANGED <<mint_pc, data_file, rlusd_file, assets, clawback_enabled, amm_call>>
    /\ UNCHANGED <<oracle_vars, scorer_vars>>

\* lines 566-572: an exception inside mint_asset_on_chain, raised before
\* anything is submitted, is caught and the asset is marked failed
FailAsset ==
    /\ mint_pc = "loop"
    /\ asset_index < Len(assets)
    /\ ShouldMint(asset_index)
    /\ AppendAsset(WithChainInfo(Asset, FailedChainInfo("Exception", IssuerAddress)))
    /\ UNCHANGED <<mint_pc, data_file, rlusd_file, assets, clawback_enabled>>
    /\ UNCHANGED <<oracle_vars, scorer_vars, amm_vars>>

\* line 573 when i >= 3: the asset is kept as loaded
KeepAsset ==
    /\ mint_pc = "loop"
    /\ asset_index < Len(assets)
    /\ ~ShouldMint(asset_index)
    /\ AppendAsset(Asset)
    /\ UNCHANGED <<mint_pc, data_file, rlusd_file, assets, clawback_enabled>>
    /\ UNCHANGED <<oracle_vars, scorer_vars, amm_vars>>

\* lines 580-582
SaveAssets ==
    /\ mint_pc = "loop"
    /\ asset_index = Len(assets)
    /\ data_file' = [exists |-> TRUE, assets |-> updated_assets]
    /\ mint_pc' = "done"
    /\ UNCHANGED <<rlusd_file, assets, asset_index, updated_assets, clawback_enabled>>
    /\ UNCHANGED <<oracle_vars, scorer_vars, amm_vars>>

MintNext ==
    \/ SetUpIssuer
    \/ MintMockRlusd
    \/ LoadAssets
    \/ MintAsset
    \/ FailAsset
    \/ KeepAsset
    \/ SaveAssets

MintSpec == MintInit /\ [][MintNext]_vars

\* chain_info is the structure mint_asset_on_chain returns, of this run
IsMinted(chain_info) ==
    /\ DOMAIN chain_info =
         {"issuer", "tokens", "human_name", "currency", "ticker", "oracle", "amm",
          "token_standard", "clawback_enabled"}
    /\ chain_info["issuer"] = IssuerAddress

\* chain_info is {error, issuer, status: 'failed'}, of this run
IsFailed(chain_info) ==
    /\ DOMAIN chain_info = {"error", "issuer", "status"}
    /\ chain_info["issuer"] = IssuerAddress
    /\ chain_info["status"] = "failed"

\* written is loaded with a chain_info of this run set, and nothing else
\* changed
OnlyChainInfoSet(written, loaded) ==
    /\ DOMAIN written = DOMAIN loaded \cup {"chain_info"}
    /\ \A k \in DOMAIN loaded \ {"chain_info"} : written[k] = loaded[k]
    /\ IsMinted(written["chain_info"]) \/ IsFailed(written["chain_info"])

\* C18: when main completes, the written file holds every loaded asset in
\* the loaded order; the assets at index 0..2 carry a chain_info of this
\* run, minted or failed, and are otherwise as loaded; the assets at index
\* 3 and above are as loaded.  Every turn of the loop, a failed one
\* included, goes on to the next asset, and a turn at index 3 or above
\* submits nothing.
C18_FirstThreeMinted ==
    /\ [](mint_pc = "done" =>
            /\ data_file.exists
            /\ Len(data_file.assets) = Len(assets)
            /\ \A k \in 1..Len(assets) :
                   IF k <= 3
                   THEN OnlyChainInfoSet(data_file.assets[k], assets[k])
                   ELSE data_file.assets[k] = assets[k])
    /\ [][(mint_pc = "loop" /\ asset_index < Len(assets)) =>
            /\ mint_pc' = "loop"
            /\ asset_index' = asset_index + 1
            /\ Len(updated_assets') = asset_index + 1
            /\ asset_index >= 3 => /\ amm_pools' = amm_pools
                                   /\ submitted' = submitted
                                   /\ oracle_txs' = oracle_txs]_vars

C18_Witness ==
    /\ mint_pc = "done"
    /\ Len(assets) = 5
    /\ IsFailed(data_file.assets[1]["chain_info"])
    /\ IsMinted(data_file.assets[2]["chain_info"])
    /\ IsFailed(data_file.assets[3]["chain_info"])
    /\ data_file.assets[4] = assets[4]
    /\ data_file.assets[4]["chain_info"].issuer = EarlierIssuerAddress
    /\ "chain_info" \notin DOMAIN data_file.assets[5]

\* ------------------------------------------------------------------------
\* The tenure of a row
\* ------------------------------------------------------------------------
\* the tenure pattern matched in the current row (lines 108-109)
TenureMatched == Parsed /\ "tenure_raw" \in DOMAIN parsed

\* the text '99 yrs from <year>'
NinetyNineYrsFrom(year) ==
    <<"9", "9", " ", "y", "r", "s", " ", "f", "r", "o", "m", " ">> \o IntToStr(year)

\* the type rule on the dict p: Freehold/999yr when the matched text holds
\* 'Freehold' or '999', Leasehold otherwise
TypeRule(p) ==
    p["tenure_type"] =
        IF \/ Contains(p["tenure_raw"], <<"F", "r", "e", "e", "h", "o", "l", "d">>)
           \/ Contains(p["tenure_raw"], <<"9", "9", "9">>)
        THEN "Freehold/999yr" ELSE "Leasehold"

\* the year rule on the dict p, year_at being the place of the year that
\* follows 'from ' in the matched text (0: none)
YearRule(p, year_at) ==
    p["commence_year"] =
        IF year_at = 0 THEN 0
        ELSE IntOf(SubSeq(p["tenure_raw"], year_at, year_at + 3))

\* C21: when the tenure pattern matched, the type is Freehold/999yr if the
\* matched text holds 'Freehold' or '999' and Leasehold otherwise, the
\* commencement year is the year after 'from ' or 0 when there is none, and
\* a matched text '99 yrs from Y' gives Leasehold with commencement year Y.
C21_TenureOfMatchedText ==
    TenureMatched =>
        /\ TypeRule(parsed)
        /\ YearRule(parsed, YearSearch(parsed["tenure_raw"]))
        /\ \A Y \in LeaseYears :
               parsed["tenure_raw"] = NinetyNineYrsFrom(Y) =>
                   /\ parsed["tenure_type"] = "Leasehold"
                   /\ parsed["commence_year"] = Y

\* the stripped row ends in the word 'freehold', in any letter case
EndsInFreehold(row) ==
    /\ Len(Strip(row)) >= 8
    /\ StartsWithAtCI(Strip(row), Len(Strip(row)) - 7,
                      <<"f", "r", "e", "e", "h", "o", "l", "d">>)

\* C22: every row that ends in the word 'freehold', in any letter case, is
\* given tenure type Freehold/999yr and the verdict APPROVED, as a row that
\* ends in 'Freehold' is.
C22_FreeholdAnyCase ==
    (Parsed /\ EndsInFreehold(raw_rows[idx])) =>
        /\ parsed["tenure_type"] = "Freehold/999yr"
        /\ AtGate => compliance.status = "APPROVED"

\* ------------------------------------------------------------------------
\* The oracle status recorded for an asset
\* ------------------------------------------------------------------------
\* the ledger validated an OracleSet of this run whose document id is the
\* one chain_info records, for the token of chain_info
OracleSetValidated(chain_info) ==
    \E k \in 1..Len(oracle_txs) :
        /\ oracle_txs[k].oracle_document_id = chain_info["oracle"].document_id
        /\ oracle_txs[k].currency = chain_info["currency"]

\* C23: for every asset minted in this run, chain_info.oracle.price_set is
\* true only if the OracleSet transaction of the asset was validated, and
\* chain_info.oracle.document_id is the document id of that transaction.
C23_OracleStatusTruthful ==
    \A k \in 1..Len(updated_assets) :
        ("chain_info" \in DOMAIN updated_assets[k]
            /\ IsMinted(updated_assets[k]["chain_info"])
            /\ updated_assets[k]["chain_info"]["oracle"].price_set)
          => OracleSetValidated(updated_assets[k]["chain_info"])

====
